---------------------------- MODULE Spec2Model ----------------------------
(***************************************************************************)
(* Model of the task-completion plugin of src/src/index.ts.                *)
(*                                                                         *)
(* A JavaScript string is a sequence of one-character strings, so that     *)
(* split, join, trim, startsWith and the logbook pattern are computed on   *)
(* characters.  A text that has been split on "\n" is a sequence of lines. *)
(* An object used as a map (block.properties) is a function whose DOMAIN   *)
(* is the set of its keys; a block whose properties are undefined is a     *)
(* record without the properties field.                                    *)
(***************************************************************************)
EXTENDS Integers, Sequences, FiniteSets, TLC

VARIABLES
    settings,               \* logseq.settings
    TASK_MARKERS,           \* index.ts:105
    TASK_MARKERS_COMPLETE,  \* index.ts:108
    h,                      \* the DB.onChanged invocation being followed
    rc,                     \* one application of getUpdatedBlockContent
    ps,                     \* one application of splitTaskMarkers
    cmd,                    \* the slash-command invocation and its page
    store,                  \* the host's copy of the block being edited
    invs,                   \* the DB.onChanged invocations on that block
    outbox                  \* the updateBlock calls handed to the host

vars == <<settings, TASK_MARKERS, TASK_MARKERS_COMPLETE, h, rc,
          ps, cmd, store, invs, outbox>>

\* the parts of the state that only one of the specifications moves
hostVars == <<store, invs, outbox>>
aside == <<ps, cmd, store, invs, outbox>>

PsIdle == [stage |-> "idle"]
CmdIdle == [pc |-> "idle"]
StoreIdle == [pc |-> "idle"]

AsideIdle ==
    /\ ps = PsIdle
    /\ cmd = CmdIdle
    /\ store = StoreIdle
    /\ invs = << >>
    /\ outbox = << >>

(***************************************************************************)
(* Bounds                                                                  *)
(***************************************************************************)
MaxBlocks == 2      \* blocks in one change event
MaxLines == 2       \* lines of a text handed to the reconciler

(***************************************************************************)
(* Strings                                                                 *)
(***************************************************************************)
EmptyString == << >>

\* String.prototype.startsWith
StartsWith(s, p) ==
    /\ Len(p) <= Len(s)
    /\ \A i \in 1..Len(p) : s[i] = p[i]

RECURSIVE IndexOfFrom(_, _, _)
\* first index >= i of character c in s, or 0
IndexOfFrom(s, c, i) ==
    IF i > Len(s) THEN 0
    ELSE IF s[i] = c THEN i
    ELSE IndexOfFrom(s, c, i + 1)

RECURSIVE Split(_, _)
\* String.prototype.split(sep) for a one-character separator: never empty
Split(s, sep) ==
    LET i == IndexOfFrom(s, sep, 1)
    IN  IF i = 0 THEN << s >>
        ELSE << SubSeq(s, 1, i - 1) >> \o Split(SubSeq(s, i + 1, Len(s)), sep)

RECURSIVE Join(_, _)
\* Array.prototype.join(sep): the empty array joins to the empty string
Join(lines, sep) ==
    IF lines = << >> THEN EmptyString
    ELSE IF Len(lines) = 1 THEN lines[1]
    ELSE lines[1] \o sep \o Join(Tail(lines), sep)

VerticalTab == ""        \* U+000B
NoBreakSpace == " "       \* U+00A0
OghamSpace == " "         \* U+1680
ByteOrderMark == "﻿"      \* U+FEFF

\* the white space and line terminators String.prototype.trim strips.  The
\* space separators U+2000 to U+200A, U+202F, U+205F and U+3000 and the line
\* terminators U+2028 and U+2029, which it strips too, cannot be written in
\* a string here
IsSpace(c) ==
    c \in {" ", "\t", "\n", "\r", "\f",
           VerticalTab, NoBreakSpace, OghamSpace, ByteOrderMark}

RECURSIVE TrimStart(_)
TrimStart(s) ==
    IF s # << >> /\ IsSpace(s[1]) THEN TrimStart(Tail(s)) ELSE s

RECURSIVE TrimEnd(_)
TrimEnd(s) ==
    IF s # << >> /\ IsSpace(s[Len(s)]) THEN TrimEnd(SubSeq(s, 1, Len(s) - 1)) ELSE s

\* String.prototype.trim
Trim(s) == TrimEnd(TrimStart(s))

NL == << "\n" >>


(***************************************************************************)
(* Objects used as maps                                                    *)
(***************************************************************************)
EmptyMap == [k \in {} |-> EmptyString]

\* the property names every object inherits from Object.prototype
ProtoKey == << "_", "_", "p", "r", "o", "t", "o", "_", "_" >>
ObjectPrototypeKeys ==
    { << "c", "o", "n", "s", "t", "r", "u", "c", "t", "o", "r" >>,
      << "t", "o", "S", "t", "r", "i", "n", "g" >>,
      << "t", "o", "L", "o", "c", "a", "l", "e", "S", "t", "r", "i", "n", "g" >>,
      << "v", "a", "l", "u", "e", "O", "f" >>,
      << "h", "a", "s", "O", "w", "n", "P", "r", "o", "p", "e", "r", "t", "y" >>,
      << "i", "s", "P", "r", "o", "t", "o", "t", "y", "p", "e", "O", "f" >>,
      << "p", "r", "o", "p", "e", "r", "t", "y", "I", "s", "E", "n", "u", "m", "e", "r", "a", "b", "l", "e" >>,
      << "_", "_", "p", "r", "o", "t", "o", "_", "_" >>,
      << "_", "_", "d", "e", "f", "i", "n", "e", "G", "e", "t", "t", "e", "r", "_", "_" >>,
      << "_", "_", "d", "e", "f", "i", "n", "e", "S", "e", "t", "t", "e", "r", "_", "_" >>,
      << "_", "_", "l", "o", "o", "k", "u", "p", "G", "e", "t", "t", "e", "r", "_", "_" >>,
      << "_", "_", "l", "o", "o", "k", "u", "p", "S", "e", "t", "t", "e", "r", "_", "_" >> }

\* block.properties is optional: a block without it is a record without
\* the field
HasProperties(block) == "properties" \in DOMAIN block

\* block.properties ?? {}  (index.ts:82) and { ...block.properties }
\* (index.ts:158, 176): the empty object for a block without properties
PropertiesOf(block) ==
    IF HasProperties(block) THEN block.properties ELSE EmptyMap

\* key in obj: own keys and inherited ones
HasKey(obj, key) == key \in DOMAIN obj \/ key \in ObjectPrototypeKeys

\* { ...a, ...b }: the keys of both, b's value where both have the key
Spread(a, b) == b @@ a

\* delete obj[key]
Delete(obj, key) == [k \in (DOMAIN obj) \ {key} |-> obj[k]]

\* JavaScript truthiness of obj?.[key]: undefined and "" are falsy, and an
\* inherited member (a function, or the prototype itself) is truthy
Truthy(obj, key) ==
    IF key \in DOMAIN obj THEN obj[key] # EmptyString
    ELSE key \in ObjectPrototypeKeys

\* JavaScript truthiness of block.properties?.[key]  (index.ts:127, 129):
\* undefined for a block without properties, whatever the key
OptionalTruthy(block, key) ==
    HasProperties(block) /\ Truthy(block.properties, key)

Digits == << "0", "1", "2", "3", "4", "5", "6", "7", "8", "9" >>
IsDigit(c) == \E n \in 1..Len(Digits) : Digits[n] = c
DigitRank(c) == CHOOSE n \in 1..Len(Digits) : Digits[n] = c

RECURSIVE NumeralLess(_, _)
\* a < b for two decimal numerals without leading zeros
NumeralLess(a, b) ==
    IF Len(a) # Len(b) THEN Len(a) < Len(b)
    ELSE IF a = << >> THEN FALSE
    ELSE IF a[1] # b[1] THEN DigitRank(a[1]) < DigitRank(b[1])
    ELSE NumeralLess(Tail(a), Tail(b))

\* 2^32 - 2, the largest array index
MaxIndexKey == << "4", "2", "9", "4", "9", "6", "7", "2", "9", "4" >>

\* a property name that is an array index: such keys come first and in
\* ascending order in Object.entries(), whenever they were assigned
IsIndexKey(key) ==
    /\ key # << >>
    /\ \A i \in 1..Len(key) : IsDigit(key[i])
    /\ Len(key) = 1 \/ key[1] # "0"
    /\ ~NumeralLess(MaxIndexKey, key)

\* obj[key] = value, for a string value, on an object literal kept as its
\* Object.entries(): a key that is already there keeps its place and takes
\* the new value; a new array-index key goes among the index keys, in
\* ascending order; any other new key goes last; and assigning a string to
\* __proto__ creates no property
PutEntry(entries, key, value) ==
    IF key = ProtoKey THEN entries
    ELSE IF \E i \in 1..Len(entries) : entries[i][1] = key
    THEN [i \in 1..Len(entries) |->
             IF entries[i][1] = key THEN <<key, value>> ELSE entries[i]]
    ELSE IF IsIndexKey(key)
    THEN LET before == Cardinality({i \in 1..Len(entries) :
                           /\ IsIndexKey(entries[i][1])
                           /\ NumeralLess(entries[i][1], key)})
         IN  SubSeq(entries, 1, before) \o << <<key, value>> >>
             \o SubSeq(entries, before + 1, Len(entries))
    ELSE Append(entries, <<key, value>>)

\* the object whose Object.entries() is entries
FromEntries(entries) ==
    [k \in {entries[i][1] : i \in 1..Len(entries)} |->
        entries[CHOOSE i \in 1..Len(entries) : entries[i][1] = k][2]]

(***************************************************************************)
(* getUpdatedBlockContent (index.ts:80-101)                                *)
(***************************************************************************)
LogbookOpen == << ":", "L", "O", "G", "B", "O", "O", "K", ":" >>
LogbookClock == << "C", "L", "O", "C", "K", ":" >>
LogbookEnd == << ":", "E", "N", "D", ":" >>

\* line.match(/^(:LOGBOOK:|CLOCK:|:END:)/)
logbookRegex(line) ==
    \/ StartsWith(line, LogbookOpen)
    \/ StartsWith(line, LogbookClock)
    \/ StartsWith(line, LogbookEnd)

\* `${key}:: ${value}`
PropertyLine(key, value) == key \o << ":", ":", " " >> \o value

\* `${key}::`
PropertyPrefix(key) == key \o << ":", ":" >>

\* AddLines putting the new lines first (unshift for push)
AddLines_Unshift(updatedLines, add, blockProperties) ==
    LET isNew(entry) == ~HasKey(blockProperties, entry[1])
        new == SelectSeq(add, isNew)
    IN  [i \in 1..Len(new) |-> PropertyLine(new[i][1], new[i][2])]
        \o updatedLines

RECURSIVE AddLines(_, _, _)
\* updateProperties.add?.forEach(...)  (index.ts:88-92)
AddLines(updatedLines, add, blockProperties) ==
    IF add = << >> THEN updatedLines
    ELSE LET key == add[1][1]
             value == add[1][2]
         IN  AddLines(
                 IF ~HasKey(blockProperties, key)
                 THEN Append(updatedLines, PropertyLine(key, value))
                 ELSE updatedLines,
                 Tail(add), blockProperties)

RECURSIVE RemoveLines_KeyPrefix(_, _, _)
\* RemoveLines matching `${key}` for `${key}::`
RemoveLines_KeyPrefix(updatedLines, remove, blockProperties) ==
    IF remove = << >> THEN updatedLines
    ELSE LET key == remove[1]
             keep(line) == ~StartsWith(line, key)
         IN  RemoveLines_KeyPrefix(
                 IF HasKey(blockProperties, key)
                 THEN SelectSeq(updatedLines, keep)
                 ELSE updatedLines,
                 Tail(remove), blockProperties)

RECURSIVE RemoveLines(_, _, _)
\* updateProperties.remove?.forEach(...)  (index.ts:94-98)
RemoveLines(updatedLines, remove, blockProperties) ==
    IF remove = << >> THEN updatedLines
    ELSE LET key == remove[1]
             keep(line) == ~StartsWith(line, PropertyPrefix(key))
         IN  RemoveLines(
                 IF HasKey(blockProperties, key)
                 THEN SelectSeq(updatedLines, keep)
                 ELSE updatedLines,
                 Tail(remove), blockProperties)

\* contentLines.filter(line => !line.match(logbookRegex))  (index.ts:86)
FilterLogbook(contentLines) ==
    LET notLogbook(line) == ~logbookRegex(line)
    IN  SelectSeq(contentLines, notLogbook)

\* block: [content, properties, ...]; updateProperties: [add, remove], an
\* absent add or remove being the empty sequence
getUpdatedBlockContent(block, updateProperties) ==
    LET contentLines == Split(block.content, "\n")
        blockProperties == PropertiesOf(block)
        filtered == FilterLogbook(contentLines)
        added == AddLines(filtered, updateProperties.add, blockProperties)
        removed == RemoveLines(added, updateProperties.remove, blockProperties)
    IN  Join(removed, NL)

(***************************************************************************)
(* Values the model draws from                                             *)
(***************************************************************************)
KeyC == << "c" >>           \* a property name, e.g. "completed"
KeyT == << "t" >>           \* a property name, e.g. "time"
\* a name every object inherits from Object.prototype
KeyInherited == << "c", "o", "n", "s", "t", "r", "u", "c", "t", "o", "r" >>
\* a name that begins with a logbook tag: its line `CLOCK:: value` matches
\* the pattern of index.ts:84
KeyLogbook == << "C", "L", "O", "C", "K" >>
\* a name that is an array index
KeyIndex == << "1" >>

\* the names the two property settings hold: any string the user types
DateKeys == {KeyC, KeyT, KeyInherited, KeyLogbook}
TimeKeys == {KeyT, KeyIndex}
PropertyKeys == DateKeys \cup TimeKeys

\* the keys of the property maps of the drawn blocks
BlockKeys == {KeyC, KeyT}

ValA == << "A" >>
ValB == << "B" >>
PropertyValues == {EmptyString, ValA}

\* getDateForPage(new Date(), preferredDateFormat) and dayjs().format(...)
TodayLabel == << "J" >>
TimeNow == << "9" >>

\* every map from some of the keys to the values
PropertyMaps ==
    UNION {[S -> PropertyValues] : S \in SUBSET BlockKeys}

LinePool ==
    { << "x" >>,
      EmptyString,
      PropertyLine(KeyC, ValA),
      PropertyLine(KeyT, ValB),
      PropertyLine(<< "c", "c" >>, ValA),
      PropertyLine(KeyInherited, ValA),
      LogbookOpen,
      LogbookClock \o << " ", "y" >>,
      LogbookEnd }

\* the sequences of 1..n elements of S
SeqsUpTo(S, n) == UNION {[1..m -> S] : m \in 1..n}

Texts == {Join(lines, NL) : lines \in SeqsUpTo(LinePool, MaxLines)}

\* [...Object.entries(updateProperties)]  (index.ts:155): the date, the
\* time or both, under any of the names
AddRequests ==
    { << >>,
      << <<KeyC, TodayLabel>> >>,
      << <<KeyT, TimeNow>> >>,
      << <<KeyC, TodayLabel>>, <<KeyT, TimeNow>> >>,
      << <<KeyInherited, TodayLabel>> >>,
      << <<KeyLogbook, TodayLabel>> >>,
      << <<KeyIndex, TimeNow>>, <<KeyC, TodayLabel>> >> }

\* propertiesToRemove  (index.ts:165-173)
RemoveRequests ==
    { << >>, << KeyC >>, << KeyT >>, << KeyC, KeyT >>,
      << KeyInherited >>, << KeyLogbook >> }

UpdateRequests == [add : AddRequests, remove : RemoveRequests]

(***************************************************************************)
(* The reconciler applied to drawn inputs                                  *)
(***************************************************************************)
RcIdle == [stage |-> "idle"]

RcInputs ==
    [stage : {"in"}, content : Texts, properties : PropertyMaps,
     upd : UpdateRequests]

\* the property map once the host has applied the request to it
MapAfter(properties, upd) ==
    LET added == Spread(properties, FromEntries(upd.add))
    IN  [k \in (DOMAIN added) \ {upd.remove[i] : i \in 1..Len(upd.remove)}
            |-> added[k]]

\* getUpdatedBlockContent on the drawn block and request
Reconcile ==
    /\ rc.stage = "in"
    /\ rc' = [rc EXCEPT !.stage = "out"] @@
             [out |-> getUpdatedBlockContent(rc, rc.upd)]
    /\ UNCHANGED <<settings, TASK_MARKERS, TASK_MARKERS_COMPLETE, h>>
    /\ UNCHANGED aside

\* the same request on the output, the property map as the request left it
ReconcileAgainUpdated ==
    /\ rc.stage = "out"
    /\ rc' = [rc EXCEPT !.stage = "againUpdated"] @@
             [out2 |-> getUpdatedBlockContent(
                  [content |-> rc.out,
                   properties |-> MapAfter(rc.properties, rc.upd)], rc.upd)]
    /\ UNCHANGED <<settings, TASK_MARKERS, TASK_MARKERS_COMPLETE, h>>
    /\ UNCHANGED aside

\* after an addition of one key alone: the removal of that key from the
\* output, the property map as the addition left it
ReconcileRemoval ==
    /\ rc.stage = "out"
    /\ Len(rc.upd.add) = 1
    /\ rc.upd.remove = << >>
    /\ rc' = [rc EXCEPT !.stage = "removed"] @@
             [out2 |-> getUpdatedBlockContent(
                  [content |-> rc.out,
                   properties |-> MapAfter(rc.properties, rc.upd)],
                  [add |-> << >>, remove |-> << rc.upd.add[1][1] >>])]
    /\ UNCHANGED <<settings, TASK_MARKERS, TASK_MARKERS_COMPLETE, h>>
    /\ UNCHANGED aside

(***************************************************************************)
(* Settings and marker sets (index.ts:60-68, 105-115)                      *)
(***************************************************************************)
Comma == ","

\* the parser without .map(trim)
splitTaskMarkers_NoTrim(taskMarkers) ==
    IF taskMarkers = EmptyString THEN << >>
    ELSE Split(taskMarkers, Comma)

\* an absent setting and "" are both falsy: both are the empty string here
splitTaskMarkers(taskMarkers) ==
    IF taskMarkers = EmptyString THEN << >>
    ELSE LET parts == Split(taskMarkers, Comma)
         IN  [i \in 1..Len(parts) |-> Trim(parts[i])]

\* new Set(array)
SetOf(array) == {array[i] : i \in 1..Len(array)}

MarkerD == << "D" >>        \* a marker, e.g. "DONE"
MarkerT == << "T" >>        \* a marker, e.g. "TODO"
NoMarker == EmptyString     \* block.marker of a block that is no task

TaskMarkersSettings == { << "D", ",", " ", "T" >>, << "T" >> }
TaskMarkersCompleteSettings == { << "D" >> }

\* logseq.settings; timeFormat only reaches dayjs().format, whose result is
\* TimeNow.  The date key may be the time key, and it may change while a
\* handler awaits; either key may be a name that is no ordinary property
\* name.  The marker settings are the default ones here; MarkerSettingsPool
\* varies them
SettingsPool ==
    [taskMarkers : { << "D", ",", " ", "T" >> },
     taskMarkersComplete : TaskMarkersCompleteSettings,
     includeDate : BOOLEAN,
     completedDateProperty : DateKeys,
     includeTime : BOOLEAN,
     completedTimeProperty : TimeKeys]

(***************************************************************************)
(* Blocks and change events                                                *)
(***************************************************************************)
LogbookLines == << LogbookOpen, LogbookClock \o << " ", "y" >>, LogbookEnd >>

\* properties and content of the blocks of an event: the content carries
\* one line per property, and for some a logbook; the first has no
\* properties field
BlockBodies ==
    { [content |-> Join(<< << "x" >> >>, NL)],
      [properties |-> EmptyMap,
       content |-> Join(<< << "x" >> >>, NL)],
      [properties |-> EmptyMap,
       content |-> Join(<< << "x" >> >> \o LogbookLines, NL)],
      [properties |-> [k \in {KeyC} |-> ValA],
       content |-> Join(<< << "x" >>, PropertyLine(KeyC, ValA) >>, NL)],
      [properties |-> [k \in {KeyT} |-> ValA],
       content |-> Join(<< << "x" >>, PropertyLine(KeyT, ValA) >>
                        \o LogbookLines, NL)],
      [properties |-> [k \in {KeyC, KeyT} |-> IF k = KeyC THEN ValA ELSE ValB],
       content |-> Join(<< << "x" >>, PropertyLine(KeyC, ValA),
                           PropertyLine(KeyT, ValB) >>, NL)],
      [properties |-> [k \in {KeyC} |-> EmptyString],
       content |-> Join(<< << "x" >>, PropertyLine(KeyC, EmptyString) >>, NL)],
      [properties |-> [k \in {KeyC, KeyT} |->
                          IF k = KeyC THEN EmptyString ELSE ValB],
       content |-> Join(<< << "x" >>, PropertyLine(KeyC, EmptyString),
                           PropertyLine(KeyT, ValB) >>, NL)] }

BlockMarkers == {NoMarker, MarkerD, MarkerT}

\* the properties and content of a block
BodyOf(block) ==
    IF HasProperties(block)
    THEN [properties |-> block.properties, content |-> block.content]
    ELSE [content |-> block.content]

\* the block with that uuid, marker and body
BlockOf(uuid, marker, body) ==
    IF HasProperties(body)
    THEN [uuid |-> uuid, marker |-> marker,
          properties |-> body.properties, content |-> body.content]
    ELSE [uuid |-> uuid, marker |-> marker, content |-> body.content]

\* the block sequences of a change event; a block's uuid is its position
Events ==
    UNION { { [i \in 1..n |-> BlockOf(i, ms[i], bs[i])]
              : ms \in [1..n -> BlockMarkers], bs \in [1..n -> BlockBodies] }
            : n \in 1..MaxBlocks }

(***************************************************************************)
(* DB.onChanged handler (index.ts:117-191)                                 *)
(***************************************************************************)
RECURSIVE FindIndex(_, _, _)
\* index of the first block from i on whose marker is in markers, or 0
FindIndex(blocks, markers, i) ==
    IF i > Len(blocks) THEN 0
    ELSE IF (IF blocks[i].marker # EmptyString
             THEN blocks[i].marker \in markers ELSE FALSE) THEN i
    ELSE FindIndex(blocks, markers, i + 1)

RECURSIVE FindIndex_AnyMarker(_, _, _)
FindIndex_AnyMarker(blocks, markers, i) ==
    IF i > Len(blocks) THEN 0
    ELSE IF blocks[i].marker # EmptyString THEN i
    ELSE FindIndex_AnyMarker(blocks, markers, i + 1)

\* FindTaskBlock taking the first block with a marker, tracked or not
FindTaskBlock_AnyMarker(blocks, markers) == FindIndex_AnyMarker(blocks, markers, 1)

\* event.blocks.find(...)  (index.ts:118-120), as an index: 0 is undefined
FindTaskBlock(blocks, markers) == FindIndex(blocks, markers, 1)

\* logseq.Editor.updateBlock(uuid, content, { properties })
UpdateBlockCall(uuid, content, properties) ==
    [uuid |-> uuid, content |-> content, properties |-> properties]

\* index.ts:145-163: the time addition and the update, with the settings s
\* read at that moment and the additions made so far
CompleteTail(taskBlock, hasTimeProperty, updateProperties, s) ==
    LET withTime ==
            IF ~hasTimeProperty /\ s.includeTime
            THEN PutEntry(updateProperties, s.completedTimeProperty, TimeNow)
            ELSE updateProperties
    IN  IF Len(withTime) > 0
        THEN << UpdateBlockCall(
                    taskBlock.uuid,
                    getUpdatedBlockContent(taskBlock,
                        [add |-> withTime, remove |-> << >>]),
                    Spread(PropertiesOf(taskBlock), FromEntries(withTime))) >>
        ELSE << >>

RECURSIVE DeleteAll(_, _)
\* for (const prop of propertiesToRemove) delete obj[prop]
DeleteAll(obj, props) ==
    IF props = << >> THEN obj
    ELSE DeleteAll(Delete(obj, props[1]), Tail(props))

\* index.ts:164-190
RemovalBranch(taskBlock, hasCompletedProperty, hasTimeProperty, s) ==
    IF hasCompletedProperty \/ hasTimeProperty
    THEN LET propertiesToRemove ==
                 (IF hasCompletedProperty
                  THEN << s.completedDateProperty >> ELSE << >>)
                 \o (IF hasTimeProperty
                     THEN << s.completedTimeProperty >> ELSE << >>)
         IN  IF Len(propertiesToRemove) > 0
             THEN << UpdateBlockCall(
                         taskBlock.uuid,
                         getUpdatedBlockContent(taskBlock,
                             [add |-> << >>, remove |-> propertiesToRemove]),
                         DeleteAll(PropertiesOf(taskBlock), propertiesToRemove)) >>
             ELSE << >>
    ELSE << >>

HIdle == [pc |-> "idle"]

\* the settings and marker sets an invocation found when it started
Arrival ==
    [settings |-> settings, TASK_MARKERS |-> TASK_MARKERS,
     TASK_MARKERS_COMPLETE |-> TASK_MARKERS_COMPLETE]

\* the handler from its call to its first await or its return
HandlerStart(blocks) ==
    LET found == FindTaskBlock(blocks, TASK_MARKERS)
        base == [blocks |-> blocks, found |-> found, arrival |-> Arrival,
                 awaited |-> FALSE]
    IN  IF found = 0
        THEN base @@ [pc |-> "done", calls |-> << >>]
        ELSE
          LET taskBlock == blocks[found]
              hasCompletedProperty ==
                  OptionalTruthy(taskBlock, settings.completedDateProperty)
              hasTimeProperty ==
                  OptionalTruthy(taskBlock, settings.completedTimeProperty)
              locals == [taskBlock |-> taskBlock,
                         hasCompletedProperty |-> hasCompletedProperty,
                         hasTimeProperty |-> hasTimeProperty]
          IN  IF taskBlock.marker # EmptyString
                 /\ taskBlock.marker \in TASK_MARKERS_COMPLETE
              THEN IF ~hasCompletedProperty /\ settings.includeDate
                   THEN base @@ locals @@ [pc |-> "await", calls |-> << >>]
                   ELSE base @@ locals @@
                        [pc |-> "done",
                         calls |-> CompleteTail(taskBlock, hasTimeProperty,
                                                << >>, settings)]
              ELSE base @@ locals @@
                   [pc |-> "done",
                    calls |-> RemovalBranch(taskBlock, hasCompletedProperty,
                                            hasTimeProperty, settings)]

\* the handler from the resolution of getUserConfigs() to its return
\* (index.ts:138-163)
HandlerResume(inv) ==
    LET datePage == TodayLabel
        updateProperties ==
            PutEntry(<< >>, settings.completedDateProperty, datePage)
    IN  [inv EXCEPT !.pc = "done", !.awaited = TRUE,
                    !.calls = CompleteTail(inv.taskBlock, inv.hasTimeProperty,
                                           updateProperties, settings)]

\* the host delivers a change event.  Invocations share nothing but the
\* settings and the marker sets, which they only read: one is followed at a
\* time, from its call to its return
Changed ==
    /\ h.pc = "idle"
    /\ \E blocks \in Events : h' = HandlerStart(blocks)
    /\ UNCHANGED <<settings, TASK_MARKERS, TASK_MARKERS_COMPLETE, rc>>
    /\ UNCHANGED aside

\* the host resolves getUserConfigs()
Resumed ==
    /\ h.pc = "await"
    /\ h' = HandlerResume(h)
    /\ UNCHANGED <<settings, TASK_MARKERS, TASK_MARKERS_COMPLETE, rc>>
    /\ UNCHANGED aside

\* the callback assigning the tracked set and leaving the complete set
MarkerSetsOf_TrackedOnly(s) ==
    [TASK_MARKERS |-> SetOf(splitTaskMarkers(s.taskMarkers)),
     TASK_MARKERS_COMPLETE |-> TASK_MARKERS_COMPLETE]

\* the two sets the callback builds from its second parameter, which it
\* names `settings` (index.ts:112-114)
MarkerSetsOf(s) ==
    [TASK_MARKERS |-> SetOf(splitTaskMarkers(s.taskMarkers)),
     TASK_MARKERS_COMPLETE |-> SetOf(splitTaskMarkers(s.taskMarkersComplete))]

\* the host replaces logseq.settings by s and calls the callback with the
\* new settings first and the settings before the change second.  The
\* callback names its first parameter `_previousSettings` and builds the
\* sets from its second: the sets are those of the settings before the
\* change.  It runs to its end without suspending: both assignments are one
\* step
SettingsChangedTo(s) ==
    /\ settings' = s
    /\ TASK_MARKERS' = MarkerSetsOf(settings).TASK_MARKERS
    /\ TASK_MARKERS_COMPLETE' = MarkerSetsOf(settings).TASK_MARKERS_COMPLETE

\* the host changes the settings and calls the onSettingsChanged callback
\* (index.ts:112-115); a finished invocation is no longer followed
SettingsChanged ==
    /\ \E s \in SettingsPool : SettingsChangedTo(s)
    /\ h' = IF h.pc = "done" THEN HIdle ELSE h
    /\ UNCHANGED <<rc, ps, cmd, store, invs, outbox>>

\* the same callback where the host changes the marker settings, the complete
\* markers among them
MarkerSettingsPool ==
    [taskMarkers : TaskMarkersSettings,
     taskMarkersComplete : { << "D" >>, << "T" >> },
     includeDate : {TRUE},
     completedDateProperty : {KeyC},
     includeTime : {FALSE},
     completedTimeProperty : {KeyT}]

MarkerSettingsChanged ==
    /\ \E s \in MarkerSettingsPool : SettingsChangedTo(s)
    /\ h' = IF h.pc = "done" THEN HIdle ELSE h
    /\ UNCHANGED <<rc, ps, cmd, store, invs, outbox>>

(***************************************************************************)
(* Specifications                                                          *)
(***************************************************************************)
\* main() has run (index.ts:104-110) under some settings
Init ==
    /\ settings \in SettingsPool
    /\ TASK_MARKERS = SetOf(splitTaskMarkers(settings.taskMarkers))
    /\ TASK_MARKERS_COMPLETE = SetOf(splitTaskMarkers(settings.taskMarkersComplete))
    /\ h = HIdle
    /\ rc = RcIdle
    /\ AsideIdle

Next == Changed \/ Resumed \/ SettingsChanged

Spec == Init /\ [][Next]_vars

DefaultSettings ==
    [taskMarkers |-> << "D", ",", " ", "T" >>,
     taskMarkersComplete |-> << "D" >>,
     includeDate |-> TRUE,
     completedDateProperty |-> KeyC,
     includeTime |-> FALSE,
     completedTimeProperty |-> KeyT]

\* the reconciler alone, on every drawn text, property map and request
InitReconciler ==
    /\ settings = DefaultSettings
    /\ TASK_MARKERS = SetOf(splitTaskMarkers(settings.taskMarkers))
    /\ TASK_MARKERS_COMPLETE = SetOf(splitTaskMarkers(settings.taskMarkersComplete))
    /\ h = HIdle
    /\ rc \in RcInputs
    /\ AsideIdle

NextReconciler ==
    Reconcile \/ ReconcileAgainUpdated \/ ReconcileRemoval

SpecReconciler == InitReconciler /\ [][NextReconciler]_vars

\* the reactor while the host changes the marker settings
InitMarkerSets ==
    /\ settings \in MarkerSettingsPool
    /\ TASK_MARKERS = SetOf(splitTaskMarkers(settings.taskMarkers))
    /\ TASK_MARKERS_COMPLETE = SetOf(splitTaskMarkers(settings.taskMarkersComplete))
    /\ h = HIdle
    /\ rc = RcIdle
    /\ AsideIdle

NextMarkerSets == Changed \/ Resumed \/ MarkerSettingsChanged

SpecMarkerSets == InitMarkerSets /\ [][NextMarkerSets]_vars

(***************************************************************************)
(* Vocabulary of the properties                                            *)
(***************************************************************************)
\* a logbook line: a :LOGBOOK: open tag, a CLOCK: entry or an :END: close tag
IsLogbookLine(line) ==
    \E tag \in { << ":", "L", "O", "G", "B", "O", "O", "K", ":" >>,
                 << "C", "L", "O", "C", "K", ":" >>,
                 << ":", "E", "N", "D", ":" >> } :
        /\ Len(line) >= Len(tag)
        /\ SubSeq(line, 1, Len(tag)) = tag

\* a line that begins with `key::`
IsKeyLine(line, key) ==
    /\ Len(line) >= Len(key) + 2
    /\ SubSeq(line, 1, Len(key)) = key
    /\ line[Len(key) + 1] = ":"
    /\ line[Len(key) + 2] = ":"

\* the lines of a text
LinesOf(text) == Split(text, "\n")

RECURSIVE IsSubseq(_, _)
\* a is b with some elements left out
IsSubseq(a, b) ==
    IF a = << >> THEN TRUE
    ELSE IF b = << >> THEN FALSE
    ELSE IF a[1] = b[1] THEN IsSubseq(Tail(a), Tail(b))
    ELSE IsSubseq(a, Tail(b))

RcApplied == rc.stage \in {"out", "againUpdated", "removed"}

RcAddKeys == {rc.upd.add[i][1] : i \in 1..Len(rc.upd.add)}
RcRemoveKeys == {rc.upd.remove[i] : i \in 1..Len(rc.upd.remove)}

(***************************************************************************)
(* C7: whatever the text, the property map and the request, no line of the *)
(* content the reconciler returns is a logbook line.                       *)
(***************************************************************************)
C7_NoLogbookLine ==
    RcApplied =>
        \A i \in 1..Len(LinesOf(rc.out)) : ~IsLogbookLine(LinesOf(rc.out)[i])

(***************************************************************************)
(* C8: adding a key and then removing the same key from the result gives   *)
(* back a text byte-equal to the original.                                 *)
(***************************************************************************)
C8_RoundTripOriginal ==
    rc.stage = "removed" => rc.out2 = rc.content

\* C8 as amended: adding a key and then removing it gives the original
\* text without its logbook lines and without its lines beginning with
\* `key::`; the result is byte-equal to the original when it has neither
C8_RoundTrip ==
    rc.stage = "removed" =>
        LET key == rc.upd.add[1][1]
            kept(line) == ~IsLogbookLine(line) /\ ~IsKeyLine(line, key)
            lines == LinesOf(rc.content)
        IN  /\ rc.out2 = Join(SelectSeq(lines, kept), NL)
            /\ (\A i \in 1..Len(lines) : kept(lines[i])) => rc.out2 = rc.content

\* a key absent from the map was added as a line and removed again, and the
\* original text came back
C8_Witness ==
    /\ rc.stage = "removed"
    /\ rc.upd.add[1][1] \notin DOMAIN rc.properties
    /\ rc.out # rc.content
    /\ rc.out2 = rc.content
    /\ Len(LinesOf(rc.content)) > 1

(***************************************************************************)
(* C9: re-applying the same request to the reconciler's own output returns *)
(* that output unchanged.  The property map of the second application is   *)
(* the one the request leaves (added keys put in, removed keys deleted),   *)
(* and the request does not add and remove one key.                        *)
(***************************************************************************)
C9_Idempotent ==
    (rc.stage = "againUpdated" /\ RcAddKeys \cap RcRemoveKeys = {})
        => rc.out2 = rc.out

(***************************************************************************)
(* C10: every line of the input that is neither a logbook line nor a       *)
(* `key::` line of a key named for removal is in the output once,          *)
(* unmodified and in its original order, and the only new lines are the    *)
(* appended `key:: value` lines of the requested additions.                *)
(***************************************************************************)
C10_Frame ==
    rc.stage = "out" =>
        LET inLines == LinesOf(rc.content)
            notLogbook(line) == ~IsLogbookLine(line)
            untouched(line) ==
                /\ ~IsLogbookLine(line)
                /\ \A k \in RcRemoveKeys : ~IsKeyLine(line, k)
            requested == [i \in 1..Len(rc.upd.add) |->
                            rc.upd.add[i][1] \o << ":", ":", " " >> \o rc.upd.add[i][2]]
            \* the empty text is the text of no line as well as of one
            outs == {LinesOf(rc.out)} \cup
                    (IF rc.out = EmptyString THEN {<< >>} ELSE {})
        IN  \E outLines \in outs : \E n \in 0..Len(outLines) :
                LET retained == SubSeq(outLines, 1, n)
                    appended == SubSeq(outLines, n + 1, Len(outLines))
                IN  /\ IsSubseq(SelectSeq(inLines, untouched), retained)
                    /\ IsSubseq(retained, SelectSeq(inLines, notLogbook))
                    /\ IsSubseq(appended, requested)

\* a removal has dropped a line and an addition has appended one while a
\* line of another key, that begins like the removed one, was kept
C10_Witness ==
    /\ rc.stage = "out"
    /\ KeyC \in RcRemoveKeys /\ KeyC \in DOMAIN rc.properties
    /\ KeyT \in RcAddKeys /\ KeyT \notin DOMAIN rc.properties
    /\ LinesOf(rc.content) =
           << PropertyLine(<< "c", "c" >>, ValA), PropertyLine(KeyC, ValA) >>
    /\ LinesOf(rc.out) =
           << PropertyLine(<< "c", "c" >>, ValA), PropertyLine(KeyT, TimeNow) >>

(***************************************************************************)
(* The invocation that has returned, in the words of the properties        *)
(***************************************************************************)
HDone == h.pc = "done"

\* the settings and marker sets the event arrived under
TrackedSet == h.arrival.TASK_MARKERS
CompleteSet == h.arrival.TASK_MARKERS_COMPLETE
DateKey == h.arrival.settings.completedDateProperty
TimeKey == h.arrival.settings.completedTimeProperty

HasTrackedMarker(block) ==
    block.marker # NoMarker /\ block.marker \in TrackedSet

\* the event has a block with a tracked marker
HSelected ==
    HDone /\ \E i \in 1..Len(h.blocks) : HasTrackedMarker(h.blocks[i])

\* the selected block: the first block of the event with a tracked marker
SelBlock ==
    h.blocks[CHOOSE i \in 1..Len(h.blocks) :
                /\ HasTrackedMarker(h.blocks[i])
                /\ \A j \in 1..(i - 1) : ~HasTrackedMarker(h.blocks[j])]

SelInComplete == SelBlock.marker \in CompleteSet

Present(key) == key \in DOMAIN PropertiesOf(SelBlock)

\* the lines of the selected block's text that are no logbook lines
SelTextLines ==
    LET notLogbook(line) == ~IsLogbookLine(line)
    IN  SelectSeq(LinesOf(SelBlock.content), notLogbook)

\* the block's property map once the event is handled: the requested one,
\* or the one it had when nothing is requested
ResultMap ==
    IF h.calls # << >> THEN h.calls[1].properties ELSE PropertiesOf(SelBlock)

HasTruthy(map, key) == key \in DOMAIN map /\ map[key] # << >>

(***************************************************************************)
(* C1: when the selected block's marker is not in the complete set and the *)
(* block carries the date property, the time property or both, exactly one *)
(* update is requested, for that block; its map is the block's map minus   *)
(* those of the two properties that were present, and its content has no   *)
(* line beginning with `key::` for a removed key.                          *)
(***************************************************************************)
C1_RemovalRequested ==
    (HSelected /\ ~SelInComplete /\ (Present(DateKey) \/ Present(TimeKey))) =>
        /\ Len(h.calls) = 1
        /\ h.calls[1].uuid = SelBlock.uuid
        /\ h.calls[1].properties =
               [k \in (DOMAIN PropertiesOf(SelBlock)) \ {DateKey, TimeKey}
                   |-> PropertiesOf(SelBlock)[k]]
        /\ \A k \in {DateKey, TimeKey} \cap DOMAIN PropertiesOf(SelBlock) :
               \A i \in 1..Len(LinesOf(h.calls[1].content)) :
                   ~IsKeyLine(LinesOf(h.calls[1].content)[i], k)

(***************************************************************************)
(* C3: when the selected block's marker is in the complete set and the     *)
(* block already has both the date and the time property, no update is     *)
(* requested.                                                              *)
(***************************************************************************)
C3_NoWriteWhenBothPresent ==
    (HSelected /\ SelInComplete /\ Present(DateKey) /\ Present(TimeKey)) =>
        h.calls = << >>

(***************************************************************************)
(* C4: an event gets at most one update request, whose target is the first *)
(* block of the event with a tracked marker; an event with no such block   *)
(* gets none.                                                              *)
(***************************************************************************)
C4_AtMostOneForFirstTracked ==
    (h.pc # "idle") =>
        /\ Len(h.calls) <= 1
        /\ h.calls # << >> => (HSelected /\ h.calls[1].uuid = SelBlock.uuid)
        /\ (HDone /\ ~HSelected) => h.calls = << >>

\* a block whose marker is only in the complete set came first and the
\* update went to the tracked block after it
C4_Witness ==
    /\ HDone
    /\ Len(h.blocks) = 2
    /\ h.blocks[1].marker = MarkerD
    /\ MarkerD \notin TrackedSet
    /\ MarkerD \in CompleteSet
    /\ PropertiesOf(h.blocks[1]) # EmptyMap
    /\ HasTrackedMarker(h.blocks[2])
    /\ Len(h.calls) = 1
    /\ h.calls[1].uuid = h.blocks[2].uuid

(***************************************************************************)
(* C5: an update requested for a block whose marker is in the complete set *)
(* leaves each of the date and time properties the block already had with  *)
(* its previous value, whatever that value is.                             *)
(***************************************************************************)
C5_NeverOverwritten ==
    (HSelected /\ SelInComplete /\ h.calls # << >>) =>
        \A k \in {DateKey, TimeKey} \cap DOMAIN PropertiesOf(SelBlock) :
            /\ k \in DOMAIN h.calls[1].properties
            /\ h.calls[1].properties[k] = PropertiesOf(SelBlock)[k]

\* the keys in force when an invocation that awaited writes its request
\* (index.ts:142-148)
WriteDateKey == settings.completedDateProperty
WriteTimeKey == settings.completedTimeProperty

(***************************************************************************)
(* C2: when the selected block's marker is in the complete set, includeDate*)
(* is on and the date property is absent from the block's map, one update  *)
(* is requested; its map is the block's map plus the date property set to  *)
(* today's label, and its content is the block's text with the line        *)
(* `<dateKey>:: <label>` appended; likewise for the time when includeTime  *)
(* is on and the time property is absent.  "The block's text" is taken     *)
(* either as it is or without its logbook lines, and the two keys differ.  *)
(***************************************************************************)
C2_AdditionRequested ==
    (HSelected /\ SelInComplete /\ h.arrival.settings.includeDate
       /\ DateKey # TimeKey /\ ~Present(DateKey)) =>
        LET withTime == h.arrival.settings.includeTime /\ ~Present(TimeKey)
            dateMap == [k \in {DateKey} |-> << "J" >>]
            timeMap == IF withTime THEN [k \in {TimeKey} |-> << "9" >>]
                       ELSE [k \in {} |-> << >>]
            newLines ==
                << DateKey \o << ":", ":", " ", "J" >> >>
                \o (IF withTime
                    THEN << TimeKey \o << ":", ":", " ", "9" >> >>
                    ELSE << >>)
        IN  /\ Len(h.calls) = 1
            /\ h.calls[1].properties =
                   (timeMap @@ dateMap @@ PropertiesOf(SelBlock))
            /\ h.calls[1].content \in
                   { Join(LinesOf(SelBlock.content) \o newLines, NL),
                     Join(SelTextLines \o newLines, NL) }

(***************************************************************************)
(* C6: once the selected block is reconciled, the date property is in its  *)
(* resulting map iff its marker is in the complete set, includeDate is on  *)
(* and the date property was not already present; likewise for the time    *)
(* property and includeTime.  A property that was already present is taken *)
(* either as the sentence has it or as staying present while the marker is *)
(* in the complete set, and the two keys differ.                           *)
(***************************************************************************)
C6_PresentIff ==
    (HSelected /\ DateKey # TimeKey) =>
        /\ \/ (DateKey \in DOMAIN ResultMap) <=>
                  (SelInComplete /\ h.arrival.settings.includeDate
                     /\ ~Present(DateKey))
           \/ (DateKey \in DOMAIN ResultMap) <=>
                  (SelInComplete
                     /\ (Present(DateKey) \/ h.arrival.settings.includeDate))
        /\ \/ (TimeKey \in DOMAIN ResultMap) <=>
                  (SelInComplete /\ h.arrival.settings.includeTime
                     /\ ~Present(TimeKey))
           \/ (TimeKey \in DOMAIN ResultMap) <=>
                  (SelInComplete
                     /\ (Present(TimeKey) \/ h.arrival.settings.includeTime))

(***************************************************************************)
(* The marker-set parser alone (index.ts:60-68, called at 105-114)         *)
(***************************************************************************)
MaxConfigLen == 4   \* characters of a configuration string

ConfigAlphabet == {"D", "T", ",", " ", "\n", VerticalTab}

\* the value of a marker setting: absent or "" (both EmptyString), or text
ConfigStrings == {EmptyString} \cup SeqsUpTo(ConfigAlphabet, MaxConfigLen)

PsInputs == [stage : {"input"}, taskMarkers : ConfigStrings]

\* new Set(splitTaskMarkers(logseq.settings?.taskMarkers)), index.ts:105
Parse ==
    /\ ps.stage = "input"
    /\ ps' = [stage |-> "parsed", taskMarkers |-> ps.taskMarkers,
              array |-> splitTaskMarkers(ps.taskMarkers),
              set |-> SetOf(splitTaskMarkers(ps.taskMarkers))]
    /\ UNCHANGED <<settings, TASK_MARKERS, TASK_MARKERS_COMPLETE, h, rc>>
    /\ UNCHANGED <<cmd, store, invs, outbox>>

\* the same setting parsed again when the settings change, index.ts:113
ParseAgain ==
    /\ ps.stage = "parsed"
    /\ ps' = [ps EXCEPT !.stage = "again"]
                @@ [again |-> SetOf(splitTaskMarkers(ps.taskMarkers))]
    /\ UNCHANGED <<settings, TASK_MARKERS, TASK_MARKERS_COMPLETE, h, rc>>
    /\ UNCHANGED <<cmd, store, invs, outbox>>

InitParser ==
    /\ settings = DefaultSettings
    /\ TASK_MARKERS = SetOf(splitTaskMarkers(settings.taskMarkers))
    /\ TASK_MARKERS_COMPLETE = SetOf(splitTaskMarkers(settings.taskMarkersComplete))
    /\ h = HIdle
    /\ rc = RcIdle
    /\ ps \in PsInputs
    /\ cmd = CmdIdle
    /\ store = StoreIdle
    /\ invs = << >>
    /\ outbox = << >>

NextParser == Parse \/ ParseAgain

SpecParser == InitParser /\ [][NextParser]_vars

\* the positions that bound the tokens of s: before its first character,
\* every comma, after its last character
TokenBounds(s) == {0, Len(s) + 1} \cup {i \in 1..Len(s) : s[i] = Comma}

\* t without its leading and trailing blanks, said without recursion
Stripped(t) ==
    LET solid == {i \in 1..Len(t) : ~IsSpace(t[i])}
    IN  IF solid = {} THEN EmptyString
        ELSE SubSeq(t, CHOOSE i \in solid : \A j \in solid : i <= j,
                       CHOOSE i \in solid : \A j \in solid : j <= i)

\* the comma-separated tokens of s, each stripped
TokensOf(s) ==
    {Stripped(SubSeq(s, a + 1, b - 1)) :
        <<a, b>> \in {<<x, y>> \in TokenBounds(s) \X TokenBounds(s) :
                         /\ x < y
                         /\ ~\E z \in TokenBounds(s) : x < z /\ z < y}}

\* a non-empty configuration string that names no marker at all
NamesNoMarker(s) == s # EmptyString /\ TokensOf(s) = {EmptyString}

PsParsed == ps.stage \in {"parsed", "again"}

\* C11 as stated: the parser returns the set of trimmed comma-separated
\* tokens, the empty set for an absent or empty string, the empty set for a
\* string that names no marker, and the same set when parsing again
C11_ParserOriginal ==
    PsParsed =>
        /\ ps.set = (IF ps.taskMarkers = EmptyString THEN {}
                     ELSE TokensOf(ps.taskMarkers))
        /\ NamesNoMarker(ps.taskMarkers) => ps.set = {}
        /\ ps.stage = "again" => ps.again = ps.set

\* C11 amended: the parser returns the set of trimmed comma-separated tokens
\* and the same set when parsing again; the set is empty exactly for an
\* absent or empty string, and a non-empty string that names no marker
\* yields the set holding the empty token alone
C11_Parser ==
    PsParsed =>
        /\ ps.set = (IF ps.taskMarkers = EmptyString THEN {}
                     ELSE TokensOf(ps.taskMarkers))
        /\ ps.set = {} <=> ps.taskMarkers = EmptyString
        /\ NamesNoMarker(ps.taskMarkers) => ps.set = {EmptyString}
        /\ ps.stage = "again" => ps.again = ps.set

\* "D, T" has been parsed twice into the two markers
C11_Witness ==
    /\ ps.stage = "again"
    /\ ps.taskMarkers = << "D", ",", " ", "T" >>
    /\ ps.set = {MarkerD, MarkerT}
    /\ ps.again = ps.set

(***************************************************************************)
(* The reactor and the host's copy of one block (index.ts:117-191).        *)
(* The user edits the block, the host calls the handler with the block as  *)
(* it then is, the handler's updateBlock calls reach the host in the order *)
(* they were made, and an applied call is a change of the block that the   *)
(* host reports like any other.                                            *)
(***************************************************************************)
MaxEdits == 2       \* edits the user makes to the block
MaxDeliveries == 5  \* change events the host delivers

\* the handler called with the block as the host has it
StartInv(block, cause) == HandlerStart(<< block >>) @@ [cause |-> cause]

\* the updateBlock calls of invocation i, not awaited (index.ts:153, 182)
Sent(inv, i) ==
    [j \in 1..Len(inv.calls) |->
        [call |-> inv.calls[j], by |-> i, state |-> "sent"]]

StoreBodies ==
    BlockBodies \cup
    (IF store.pc = "live" THEN {BodyOf(store.block)} ELSE {})

\* the user edits the marker, the text or the properties of the block and
\* the host delivers the change event
UserEdit ==
    /\ store.pc = "live"
    /\ store.userEdits < MaxEdits
    /\ \E m \in BlockMarkers, b \in StoreBodies :
          LET block == BlockOf(1, m, b)
              inv == StartInv(block, "edit")
          IN  /\ block # store.block
              /\ store' = [store EXCEPT !.block = block, !.userEdits = @ + 1]
              /\ invs' = Append(invs, inv)
              /\ outbox' = outbox \o Sent(inv, Len(invs) + 1)
    /\ UNCHANGED <<settings, TASK_MARKERS, TASK_MARKERS_COMPLETE, h, rc>>
    /\ UNCHANGED <<ps, cmd>>

\* the host resolves the getUserConfigs() of a suspended invocation
InvResumed ==
    /\ \E i \in 1..Len(invs) :
          /\ invs[i].pc = "await"
          /\ invs' = [invs EXCEPT ![i] = HandlerResume(invs[i])]
          /\ outbox' = outbox \o Sent(HandlerResume(invs[i]), i)
    /\ UNCHANGED <<settings, TASK_MARKERS, TASK_MARKERS_COMPLETE, h, rc>>
    /\ UNCHANGED <<ps, cmd, store>>

\* the host rejects the getUserConfigs() of a suspended invocation: the
\* await throws and the handler's promise is rejected (index.ts:137)
InvConfigsRejected ==
    /\ \E i \in 1..Len(invs) :
          /\ invs[i].pc = "await"
          /\ invs' = [invs EXCEPT ![i].pc = "rejected"]
    /\ UNCHANGED <<settings, TASK_MARKERS, TASK_MARKERS_COMPLETE, h, rc>>
    /\ UNCHANGED <<ps, cmd, store, outbox>>

HasSent == \E k \in 1..Len(outbox) : outbox[k].state = "sent"

FirstSent ==
    CHOOSE k \in 1..Len(outbox) :
        /\ outbox[k].state = "sent"
        /\ \A j \in 1..(k - 1) : outbox[j].state # "sent"

\* the host applies the oldest pending updateBlock call: the block gets the
\* content and the property map of the call (its marker, which the host
\* reads from the text, is left as it is), and the change is delivered to
\* the handler
HostApplies ==
    /\ HasSent
    /\ Len(invs) < MaxDeliveries
    /\ LET k == FirstSent
           block == BlockOf(store.block.uuid, store.block.marker,
                            [properties |-> outbox[k].call.properties,
                             content |-> outbox[k].call.content])
           inv == StartInv(block, "update")
       IN  /\ store' = [store EXCEPT !.block = block]
           /\ invs' = Append(invs, inv)
           /\ outbox' = [outbox EXCEPT ![k].state = "applied"]
                        \o Sent(inv, Len(invs) + 1)
    /\ UNCHANGED <<settings, TASK_MARKERS, TASK_MARKERS_COMPLETE, h, rc>>
    /\ UNCHANGED <<ps, cmd>>

\* the host rejects the oldest pending updateBlock call: the promise the
\* call returned is rejected, and nothing holds that promise
HostRejects ==
    /\ HasSent
    /\ outbox' = [outbox EXCEPT ![FirstSent].state = "rejected"]
    /\ UNCHANGED <<settings, TASK_MARKERS, TASK_MARKERS_COMPLETE, h, rc>>
    /\ UNCHANGED <<ps, cmd, store, invs>>

StoreBlocks == { BlockOf(1, m, b) : m \in BlockMarkers, b \in BlockBodies }

InitHost ==
    /\ settings \in SettingsPool
    /\ TASK_MARKERS = SetOf(splitTaskMarkers(settings.taskMarkers))
    /\ TASK_MARKERS_COMPLETE = SetOf(splitTaskMarkers(settings.taskMarkersComplete))
    /\ h = HIdle
    /\ rc = RcIdle
    /\ ps = PsIdle
    /\ cmd = CmdIdle
    /\ store \in [pc : {"live"}, block : StoreBlocks, userEdits : {0}]
    /\ invs = << >>
    /\ outbox = << >>

NextHost ==
    UserEdit \/ InvResumed \/ InvConfigsRejected \/ HostApplies \/ HostRejects

SpecHost == InitHost /\ [][NextHost]_vars

(***************************************************************************)
(* Properties of the reactor with the host                                 *)
(***************************************************************************)
\* C12 as stated: when the host rejects an updateBlock call, the handler
\* invocation that made the call ends rejected (the rejection has travelled
\* to the handler's own rejection path)
C12_RejectionReachesHandler ==
    \A k \in 1..Len(outbox) :
        outbox[k].state = "rejected" => invs[outbox[k].by].pc = "rejected"

(***************************************************************************)
(* The slash command "Completed tasks for the past week"                   *)
(* (index.ts:193-231).  The page is a tree of block ids: kids[b] is the    *)
(* sequence of the children of b, 0 is the page itself and CurrentBlock    *)
(* the block the user is in.                                               *)
(***************************************************************************)
MaxFormatLen == 5   \* characters of the host's preferred date format
QueryDays == 7      \* for (let i = 0; i < 7; i++), index.ts:208

WeekdayE == "E"
FormatAlphabet == {WeekdayE, "d"}
DateFormats == SeqsUpTo(FormatAlphabet, MaxFormatLen)

RECURSIVE RunLength(_, _)
\* the number of consecutive E from position i of s on
RunLength(s, i) ==
    IF i > Len(s) \/ s[i] # WeekdayE THEN 0 ELSE 1 + RunLength(s, i + 1)

\* the date format left as the host gave it
FixWeekday_Unfixed(preferredDateFormat) == preferredDateFormat

\* preferredDateFormat.replace(/E{1,3}/, "EEE"): the pattern has no g flag,
\* so the leftmost match, of at most three E, is the only one replaced
FixWeekday(preferredDateFormat) ==
    LET i == IndexOfFrom(preferredDateFormat, WeekdayE, 1)
        n == IF RunLength(preferredDateFormat, i) < 3
             THEN RunLength(preferredDateFormat, i) ELSE 3
    IN  IF i = 0 THEN preferredDateFormat
        ELSE SubSeq(preferredDateFormat, 1, i - 1)
             \o << WeekdayE, WeekdayE, WeekdayE >>
             \o SubSeq(preferredDateFormat, i + n, Len(preferredDateFormat))

\* days[i]: the term `(property completed <label>)` whose label is
\* getDateForPage(today.subtract(i + 1, "day"), format); the formatter is a
\* library, so a label is the day and the format it was asked for
DayTerms(format) ==
    [i \in 1..QueryDays |-> [daysAgo |-> i, format |-> format]]

HeadingText == "### Tasks completed last week"
SeparatorText == "---"
\* "{{query (or " + days.join(" ") + ") }}"
QueryText(days) == [query |-> days]

CurrentBlock == 1
NoBlock == 0        \* null

\* the pages the command is run on: the current block alone, after a
\* sibling, under a parent, and with a child of its own
Pages ==
    { (0 :> << 1 >>) @@ (1 :> << >>),
      (0 :> << 2, 1 >>) @@ (1 :> << >>) @@ (2 :> << >>),
      (0 :> << 2 >>) @@ (2 :> << 1 >>) @@ (1 :> << >>),
      (0 :> << 1 >>) @@ (1 :> << 2 >>) @@ (2 :> << >>) }

ParentOf(kids, b) ==
    CHOOSE p \in DOMAIN kids : \E i \in 1..Len(kids[p]) : kids[p][i] = b

IndexIn(seq, x) == CHOOSE i \in 1..Len(seq) : seq[i] = x

InsertAt(seq, pos, x) ==
    SubSeq(seq, 1, pos - 1) \o << x >> \o SubSeq(seq, pos, Len(seq))

NewId(kids) == 1 + CHOOSE b \in DOMAIN kids : \A c \in DOMAIN kids : c <= b

\* the page after the host has inserted a block for insertBlock(src, _,
\* opts): before src, as the sibling after src, or as a child of src
HostInsert(kids, src, opts) ==
    LET n == NewId(kids)
        p == ParentOf(kids, src)
    IN  (IF opts.before
         THEN [kids EXCEPT ![p] = InsertAt(@, IndexIn(@, src), n)]
         ELSE IF opts.sibling
         THEN [kids EXCEPT ![p] = InsertAt(@, IndexIn(@, src) + 1, n)]
         ELSE [kids EXCEPT ![src] = Append(@, n)])
        @@ (n :> << >>)

InsertBlockCall(src, content, opts) ==
    [src |-> src, content |-> content, opts |-> opts, outcome |-> "pending"]

InsertOutcomes == {"block", "null", "rejected"}

CmdReady ==
    [pc : {"ready"}, kids : Pages, block : {NoBlock},
     preferredDateFormat : {EmptyString},
     format : {EmptyString}, days : {<< >>}, attempts : {<< >>},
     blockHeader : {NoBlock}, inserted : {<< >>}]

\* the answer to the last insertBlock call, noted on the call
Answered(c, outcome) ==
    [c EXCEPT !.attempts[Len(c.attempts)].outcome = outcome,
              !.kids = IF outcome = "block"
                       THEN HostInsert(c.kids, c.attempts[Len(c.attempts)].src,
                                       c.attempts[Len(c.attempts)].opts)
                       ELSE @,
              !.inserted = IF outcome = "block"
                           THEN Append(@, NewId(c.kids)) ELSE @]

\* index.ts:196-200: getCurrentBlock() has answered with block
AfterCurrentBlock(c, block) ==
    IF block = NoBlock THEN [c EXCEPT !.pc = "returned"]
    ELSE [c EXCEPT !.pc = "configs", !.block = block]

\* index.ts:201-223: getUserConfigs() has answered; the query is built and
\* the heading is inserted before the current block
AfterConfigs(c, preferredDateFormat) ==
    [c EXCEPT !.pc = "header",
              !.preferredDateFormat = preferredDateFormat,
              !.format = FixWeekday(preferredDateFormat),
              !.days = DayTerms(FixWeekday(preferredDateFormat)),
              !.attempts = << InsertBlockCall(CurrentBlock, HeadingText,
                                  [before |-> TRUE, sibling |-> FALSE]) >>]

\* the command going on to the query whatever the heading's insertion
\* returned
AfterHeader_NoCheck(c, outcome) ==
    LET a == Answered(c, outcome)
    IN  IF outcome = "rejected" THEN [a EXCEPT !.pc = "rejected"]
        ELSE [a EXCEPT !.pc = "query",
                       !.blockHeader = IF outcome = "block"
                                       THEN NewId(c.kids) ELSE NoBlock,
                       !.attempts = Append(@,
                           InsertBlockCall(IF outcome = "block"
                                           THEN NewId(c.kids) ELSE NoBlock,
                                           QueryText(c.days),
                                           [before |-> FALSE,
                                            sibling |-> FALSE]))]

\* index.ts:219-227: the heading's insertBlock has answered; the query is
\* inserted under the heading
AfterHeader(c, outcome) ==
    LET a == Answered(c, outcome)
    IN  IF outcome = "rejected" THEN [a EXCEPT !.pc = "rejected"]
        ELSE IF outcome = "null" THEN [a EXCEPT !.pc = "returned"]
        ELSE [a EXCEPT !.pc = "query",
                       !.blockHeader = NewId(c.kids),
                       !.attempts = Append(@,
                           InsertBlockCall(NewId(c.kids), QueryText(c.days),
                                           [before |-> FALSE,
                                            sibling |-> FALSE]))]

\* the separator inserted as a sibling of the query block
AfterQuery_BesideQuery(c, outcome) ==
    LET a == Answered(c, outcome)
    IN  IF outcome = "rejected" THEN [a EXCEPT !.pc = "rejected"]
        ELSE [a EXCEPT !.pc = "separator",
                       !.attempts = Append(@,
                           InsertBlockCall(IF outcome = "block"
                                           THEN NewId(c.kids)
                                           ELSE c.blockHeader,
                                           SeparatorText,
                                           [before |-> FALSE,
                                            sibling |-> TRUE]))]

\* index.ts:227-230: the query's insertBlock has answered, its result is
\* not looked at; the separator is inserted as a sibling of the heading
AfterQuery(c, outcome) ==
    LET a == Answered(c, outcome)
    IN  IF outcome = "rejected" THEN [a EXCEPT !.pc = "rejected"]
        ELSE [a EXCEPT !.pc = "separator",
                       !.attempts = Append(@,
                           InsertBlockCall(c.blockHeader, SeparatorText,
                                           [before |-> FALSE,
                                            sibling |-> TRUE]))]

\* index.ts:228-231: the separator's insertBlock has answered
AfterSeparator(c, outcome) ==
    LET a == Answered(c, outcome)
    IN  IF outcome = "rejected" THEN [a EXCEPT !.pc = "rejected"]
        ELSE [a EXCEPT !.pc = "returned"]

CurrentBlockAnswered ==
    /\ cmd.pc = "ready"
    /\ \E block \in {NoBlock, CurrentBlock} :
          cmd' = AfterCurrentBlock(cmd, block)
    /\ UNCHANGED <<settings, TASK_MARKERS, TASK_MARKERS_COMPLETE, h, rc>>
    /\ UNCHANGED <<ps, store, invs, outbox>>

ConfigsAnswered ==
    /\ cmd.pc = "configs"
    /\ \E preferredDateFormat \in DateFormats :
          cmd' = AfterConfigs(cmd, preferredDateFormat)
    /\ UNCHANGED <<settings, TASK_MARKERS, TASK_MARKERS_COMPLETE, h, rc>>
    /\ UNCHANGED <<ps, store, invs, outbox>>

HeaderAnswered ==
    /\ cmd.pc = "header"
    /\ \E outcome \in InsertOutcomes : cmd' = AfterHeader(cmd, outcome)
    /\ UNCHANGED <<settings, TASK_MARKERS, TASK_MARKERS_COMPLETE, h, rc>>
    /\ UNCHANGED <<ps, store, invs, outbox>>

QueryAnswered ==
    /\ cmd.pc = "query"
    /\ \E outcome \in InsertOutcomes : cmd' = AfterQuery(cmd, outcome)
    /\ UNCHANGED <<settings, TASK_MARKERS, TASK_MARKERS_COMPLETE, h, rc>>
    /\ UNCHANGED <<ps, store, invs, outbox>>

SeparatorAnswered ==
    /\ cmd.pc = "separator"
    /\ \E outcome \in InsertOutcomes : cmd' = AfterSeparator(cmd, outcome)
    /\ UNCHANGED <<settings, TASK_MARKERS, TASK_MARKERS_COMPLETE, h, rc>>
    /\ UNCHANGED <<ps, store, invs, outbox>>

InitCommand ==
    /\ settings = DefaultSettings
    /\ TASK_MARKERS = SetOf(splitTaskMarkers(settings.taskMarkers))
    /\ TASK_MARKERS_COMPLETE = SetOf(splitTaskMarkers(settings.taskMarkersComplete))
    /\ h = HIdle
    /\ rc = RcIdle
    /\ ps = PsIdle
    /\ cmd \in CmdReady
    /\ store = StoreIdle
    /\ invs = << >>
    /\ outbox = << >>

NextCommand ==
    \/ CurrentBlockAnswered
    \/ ConfigsAnswered
    \/ HeaderAnswered
    \/ QueryAnswered
    \/ SeparatorAnswered

SpecCommand == InitCommand /\ [][NextCommand]_vars

(***************************************************************************)
(* Properties of the slash command                                         *)
(***************************************************************************)
CmdStarted == cmd.pc \notin {"idle", "ready"}

\* the insertions are attempted one after the other, each after the answer
\* to the one before: heading, then query, then separator
InsertionOrder ==
    /\ Len(cmd.attempts) <= 3
    /\ \A k \in 1..Len(cmd.attempts) :
          /\ k = 1 => cmd.attempts[k].content = HeadingText
          /\ k = 2 => cmd.attempts[k].content = QueryText(cmd.days)
          /\ k = 3 => cmd.attempts[k].content = SeparatorText
          /\ k < Len(cmd.attempts) => cmd.attempts[k].outcome # "pending"

\* without a current block nothing is inserted and the command returns
NothingWithoutBlock ==
    cmd.block = NoBlock => cmd.attempts = << >> /\ cmd.pc = "returned"

\* C13 as stated: the command attempts heading, query and separator in that
\* order; without a current block it inserts nothing and raises no error;
\* after an insertion that the host answers with no block or rejects, no
\* later insertion is attempted
C13_AbortsOnAnyFailureOriginal ==
    CmdStarted =>
        /\ InsertionOrder
        /\ NothingWithoutBlock
        /\ \A k \in 1..Len(cmd.attempts) :
              cmd.attempts[k].outcome \in {"null", "rejected"}
                  => k = Len(cmd.attempts)

\* C13 amended: the command attempts heading, query and separator in that
\* order; without a current block it inserts nothing and raises no error;
\* no later insertion is attempted after a rejected insertion or after a
\* heading insertion that returns no block, while a query insertion that
\* returns no block is followed by the separator's insertion all the same
C13_AbortsOnFailure ==
    CmdStarted =>
        /\ InsertionOrder
        /\ NothingWithoutBlock
        /\ \A k \in 1..Len(cmd.attempts) :
              \/ cmd.attempts[k].outcome = "rejected"
              \/ k = 1 /\ cmd.attempts[k].outcome = "null"
              => k = Len(cmd.attempts) /\ cmd.pc \in {"returned", "rejected"}
        /\ Len(cmd.attempts) >= 2 /\ cmd.attempts[2].outcome = "null"
              => Len(cmd.attempts) = 3

\* the host has rejected the query's insertion and the command has ended
\* without attempting the separator
C13_Witness ==
    /\ cmd.pc = "rejected"
    /\ Len(cmd.attempts) = 2
    /\ cmd.attempts[1].outcome = "block"
    /\ cmd.attempts[2].outcome = "rejected"

\* the command has returned after three insertions that each gave a block
CmdSucceeded ==
    /\ cmd.pc = "returned"
    /\ Len(cmd.inserted) = 3

HeadingBlock == cmd.inserted[1]
QueryBlock == cmd.inserted[2]
SeparatorBlock == cmd.inserted[3]

\* a is the sibling immediately before b
RightBefore(a, b) ==
    /\ ParentOf(cmd.kids, a) = ParentOf(cmd.kids, b)
    /\ IndexIn(cmd.kids[ParentOf(cmd.kids, a)], a) + 1
          = IndexIn(cmd.kids[ParentOf(cmd.kids, b)], b)

\* C15 as stated: after a successful run the heading is the sibling
\* immediately before the current block, the query is a child of the
\* heading, and the separator is a sibling of the query under the heading,
\* not a sibling of the heading
C15_SeparatorUnderHeadingOriginal ==
    CmdSucceeded =>
        /\ RightBefore(HeadingBlock, CurrentBlock)
        /\ ParentOf(cmd.kids, QueryBlock) = HeadingBlock
        /\ ParentOf(cmd.kids, SeparatorBlock) = HeadingBlock
        /\ ParentOf(cmd.kids, SeparatorBlock) # ParentOf(cmd.kids, HeadingBlock)

\* C15 amended: after a successful run the query is the only child of the
\* heading, and the separator is a sibling of the heading, not of the
\* query: heading, separator and current block follow each other
\* immediately under the current block's parent
C15_SeparatorBesideHeading ==
    CmdSucceeded =>
        /\ cmd.kids[HeadingBlock] = << QueryBlock >>
        /\ RightBefore(HeadingBlock, SeparatorBlock)
        /\ RightBefore(SeparatorBlock, CurrentBlock)
        /\ ParentOf(cmd.kids, SeparatorBlock) # HeadingBlock

\* a successful run on the page whose current block follows a sibling
C15_Witness ==
    /\ CmdSucceeded
    /\ cmd.kids[0] = << 2, HeadingBlock, SeparatorBlock, CurrentBlock >>
    /\ cmd.kids[HeadingBlock] = << QueryBlock >>

RECURSIVE AllRunsFixed(_, _)
\* s from position i on, a run starting there, with every maximal run of
\* one to three E written as EEE and every other character kept
AllRunsFixed(s, i) ==
    IF i > Len(s) THEN << >>
    ELSE IF s[i] # WeekdayE THEN << s[i] >> \o AllRunsFixed(s, i + 1)
    ELSE (IF RunLength(s, i) <= 3
          THEN << WeekdayE, WeekdayE, WeekdayE >>
          ELSE SubSeq(s, i, i + RunLength(s, i) - 1))
         \o AllRunsFixed(s, i + RunLength(s, i))

\* the command has fetched the host's date format and built its query
FormatFetched == cmd.days # << >>

\* every one of the seven day labels is asked for in the fixed format
FixedFormatForAllDays ==
    /\ Len(cmd.days) = QueryDays
    /\ \A i \in 1..QueryDays :
          cmd.days[i] = [daysAgo |-> i, format |-> cmd.format]

\* the positions of E in the host's format
WeekdayPositions ==
    {i \in 1..Len(cmd.preferredDateFormat) :
        cmd.preferredDateFormat[i] = WeekdayE}

FirstWeekday == CHOOSE i \in WeekdayPositions : \A j \in WeekdayPositions : i <= j

\* the length of the run of E that begins the weekday pattern
FirstRun ==
    CHOOSE r \in 1..Len(cmd.preferredDateFormat) :
        /\ \A j \in FirstWeekday..(FirstWeekday + r - 1) : j \in WeekdayPositions
        /\ (FirstWeekday + r) \notin WeekdayPositions

\* C16 as stated: the fix turns every run of one to three E of the format
\* into EEE, wherever and however often such runs occur, and keeps every
\* other character; the fixed format is the one given to the formatter for
\* all seven day labels
C16_EveryRunFixedOriginal ==
    FormatFetched =>
        /\ cmd.format = AllRunsFixed(cmd.preferredDateFormat, 1)
        /\ FixedFormatForAllDays

\* C16 amended: the fix touches the first run of E of the format only: a
\* first run of one or two E becomes EEE, a first run of three or more is
\* kept, and every other character, later runs of E included, is kept as it
\* is; the fixed format is the one given to the formatter for all seven day
\* labels
C16_FirstRunFixed ==
    FormatFetched =>
        /\ FixedFormatForAllDays
        /\ WeekdayPositions = {} => cmd.format = cmd.preferredDateFormat
        /\ WeekdayPositions # {} /\ FirstRun >= 3
              => cmd.format = cmd.preferredDateFormat
        /\ WeekdayPositions # {} /\ FirstRun < 3 =>
              /\ Len(cmd.format) = Len(cmd.preferredDateFormat) + 3 - FirstRun
              /\ \A j \in 1..(FirstWeekday - 1) :
                    cmd.format[j] = cmd.preferredDateFormat[j]
              /\ \A j \in FirstWeekday..(FirstWeekday + 2) :
                    cmd.format[j] = WeekdayE
              /\ \A j \in (FirstWeekday + FirstRun)..Len(cmd.preferredDateFormat) :
                    cmd.format[j + 3 - FirstRun] = cmd.preferredDateFormat[j]

\* the host's format "Ed" has been fixed to "EEEd" and used for the labels
C16_Witness ==
    /\ FormatFetched
    /\ cmd.preferredDateFormat = << "E", "d" >>
    /\ cmd.format = << "E", "E", "E", "d" >>
    /\ cmd.days[QueryDays].format = cmd.format

(***************************************************************************)
(* Properties of the reactor under changing settings                       *)
(***************************************************************************)
\* the marker set a settings value stands for
MarkersOf(setting) == IF setting = EmptyString THEN {} ELSE TokensOf(setting)

HInvoked == h.pc \in {"await", "done"}

\* the first block of the event whose marker is in the tracked set the
\* event arrived under, or 0
FirstTracked ==
    LET tracked(i) ==
            /\ h.blocks[i].marker # NoMarker
            /\ h.blocks[i].marker \in h.arrival.TASK_MARKERS
    IN  IF \E i \in 1..Len(h.blocks) : tracked(i)
        THEN CHOOSE i \in 1..Len(h.blocks) :
                 tracked(i) /\ \A j \in 1..(i - 1) : ~tracked(j)
        ELSE 0

\* the selected block is complete by the complete set the event arrived
\* under
ArrivalComplete ==
    h.blocks[h.found].marker \in h.arrival.TASK_MARKERS_COMPLETE

\* the request takes properties away
IsRemoval(call) ==
    /\ DOMAIN call.properties \subseteq DOMAIN PropertiesOf(h.blocks[h.found])
    /\ DOMAIN call.properties # DOMAIN PropertiesOf(h.blocks[h.found])

\* the tracked set and the complete set are the two sets of the settings v
SetsOfVersion(tracked, complete, v) ==
    /\ tracked = MarkersOf(v.taskMarkers)
    /\ complete = MarkersOf(v.taskMarkersComplete)

\* an invocation selects by the tracked set and classifies by the complete
\* set it found on arrival
SelectsAndClassifiesByArrival ==
    HInvoked =>
        /\ h.found = FirstTracked
        /\ h.pc = "await" \/ h.awaited => ArrivalComplete
        /\ HDone /\ h.calls # << >> =>
              (ArrivalComplete <=> ~IsRemoval(h.calls[1]))

\* a step leaves both sets, or replaces both by the sets of one version:
\* the settings the change replaced
SetsReplacedTogether ==
    \/ /\ TASK_MARKERS' = TASK_MARKERS
       /\ TASK_MARKERS_COMPLETE' = TASK_MARKERS_COMPLETE
    \/ SetsOfVersion(TASK_MARKERS', TASK_MARKERS_COMPLETE', settings)

\* an invocation takes both sets at the one moment of its arrival
SetsTakenTogether ==
    (h.pc = "idle" /\ h'.pc # "idle") =>
        /\ h'.arrival.TASK_MARKERS = TASK_MARKERS
        /\ h'.arrival.TASK_MARKERS_COMPLETE = TASK_MARKERS_COMPLETE

\* C14: the tracked set and the complete set are at every moment the two
\* sets of one settings version: they start as the sets of the settings
\* main() found, and a step either leaves both or replaces both by the sets
\* of one version; an invocation takes both at the one moment of its
\* arrival, selects its block by that tracked set and classifies it by that
\* complete set, whatever settings changes come in between
C14_SetsOfOneVersion ==
    /\ SetsOfVersion(TASK_MARKERS, TASK_MARKERS_COMPLETE, settings)
    /\ [][SetsReplacedTogether
           /\ SetsTakenTogether
           /\ SelectsAndClassifiesByArrival']_vars

\* an invocation that was suspended has written its update after both
\* marker sets were replaced
C14_Witness ==
    /\ HDone
    /\ h.awaited
    /\ h.calls # << >>
    /\ h.arrival.TASK_MARKERS # TASK_MARKERS
    /\ h.arrival.TASK_MARKERS_COMPLETE # TASK_MARKERS_COMPLETE
    /\ h.blocks[h.found].marker \notin TASK_MARKERS_COMPLETE

\* the date and time keys configured when the event arrived and when the
\* request was written
ConfiguredKeys == {DateKey, TimeKey, WriteDateKey, WriteTimeKey}

CallLines(call) == LinesOf(call.content)

HasKeyLine(call, key) ==
    \E i \in 1..Len(CallLines(call)) : IsKeyLine(CallLines(call)[i], key)

\* a line of the request that the block's text did not have
IsAddedLine(line) ==
    \A i \in 1..Len(LinesOf(SelBlock.content)) :
        LinesOf(SelBlock.content)[i] # line

\* C17: in every update request the content and the property map agree on
\* the configured date and time keys: the content has a line beginning
\* `key::` exactly when the map has the key, and a line the request adds
\* for a key reads `key:: value` with the value the map gives the key
C17_ContentAgreesWithMap ==
    HDone /\ h.calls # << >> =>
        \A key \in ConfiguredKeys :
            /\ HasKeyLine(h.calls[1], key) <=> key \in DOMAIN h.calls[1].properties
            /\ \A i \in 1..Len(CallLines(h.calls[1])) :
                  /\ IsKeyLine(CallLines(h.calls[1])[i], key)
                  /\ IsAddedLine(CallLines(h.calls[1])[i])
                  => CallLines(h.calls[1])[i]
                        = key \o << ":", ":", " " >> \o h.calls[1].properties[key]

(***************************************************************************)
(* Properties of the reactor fed with its own writes                       *)
(***************************************************************************)
\* every call was applied and every invocation ran to its end
AllDelivered ==
    /\ \A k \in 1..Len(outbox) : outbox[k].state = "applied"
    /\ \A i \in 1..Len(invs) : invs[i].pc = "done"

\* an event for the block as it now is makes the handler return at once
\* without a call
BlockSettled ==
    /\ StartInv(store.block, "update").pc = "done"
    /\ StartInv(store.block, "update").calls = << >>

\* C18: after a single user edit, with fixed settings and a host that
\* applies each update and delivers the resulting change, the reactor makes
\* at most one update request; the change its own update causes is handled
\* without a further request, and once everything is delivered the block is
\* one for which re-delivered events cause no update
C18_SettlesAfterOneUpdate ==
    store.pc = "live" /\ store.userEdits = 1 =>
        /\ Len(outbox) <= 1
        /\ \A i \in 1..Len(invs) :
              invs[i].cause = "update"
                  => invs[i].pc = "done" /\ invs[i].calls = << >>
        /\ AllDelivered => BlockSettled

\* C19 as stated: an invocation that was suspended in getUserConfigs() uses
\* one settings version throughout: the request it writes puts the date
\* under the date key it checked on arrival, changes no property but the
\* date and time keys of that version, and carries the time exactly when
\* includeTime was on at arrival and the block had no time under that key
C19_OneSettingsVersion ==
    HDone /\ h.awaited =>
        /\ h.calls # << >>
        /\ DateKey \in DOMAIN h.calls[1].properties
        /\ h.calls[1].properties[DateKey] \in {<< "J" >>, << "9" >>}
        /\ \A key \in DOMAIN h.calls[1].properties :
              \/ key \in {DateKey, TimeKey}
              \/ /\ key \in DOMAIN PropertiesOf(SelBlock)
                 /\ h.calls[1].properties[key] = PropertiesOf(SelBlock)[key]
        /\ (/\ TimeKey \in DOMAIN h.calls[1].properties
            /\ h.calls[1].properties[TimeKey] = << "9" >>)
           <=> (/\ h.arrival.settings.includeTime
                /\ ~HasTruthy(PropertiesOf(SelBlock), TimeKey))

\* C20 as stated: an update request never undoes a newer edit: whenever a
\* handler calls updateBlock, the block it took the content and the
\* property map from is the block as the host has it at that moment
C20_NoStaleWrite ==
    [][\A k \in (Len(outbox) + 1)..Len(outbox') :
          invs'[outbox'[k].by].taskBlock = store'.block]_vars

=============================================================================
